---------------------------- MODULE Spec2Model ----------------------------
(***************************************************************************)
(* AtmosphereISA (src/environnement/atmosphere.py): the layer classifier   *)
(* get_level and the three evaluators get_temperature, get_pressure and    *)
(* get_density of the International Standard Atmosphere model.             *)
(*                                                                         *)
(* Numbers.  The source computes in binary floating point.  Here every     *)
(* decimal literal of the source is an exact scaled integer, sums and      *)
(* products of literals with an integer altitude are exact, and the two    *)
(* transcendental steps (np.exp and the ** power) are rigorous enclosures  *)
(* [lo, hi] in fixed point with Scale units per 1: the real value of the   *)
(* source's expression lies in the enclosure, and the enclosure is the     *)
(* single point Scale when the argument is exactly 0 (exp(0) = 1,          *)
(* 1 ** x = 1, as in IEEE arithmetic).  TLC's integers are 32 bits wide,   *)
(* so products are formed in two halves (Half) or digit by digit.          *)
(***************************************************************************)
EXTENDS Integers, Sequences, FiniteSets, TLC

(***************************************************************************)
(* Bounds of the model.                                                    *)
(***************************************************************************)
\* altitude samples run from -Below to MaxHeight metres
Below == 2000
MaxHeight == 80000
\* every multiple of Step is a sample (the script samples every 100 m)
Step == 500
\* and so is every altitude within Near metres of a layer breakpoint
Near == 2
\* the exponential series is summed to 2*ExpPairs (+1) terms
ExpPairs == 14
\* the atanh series of the logarithm is summed to AtanhTerms terms
AtanhTerms == 8

(***************************************************************************)
(* Fixed point arithmetic on non-negative numbers, Scale units per 1.      *)
(***************************************************************************)
Half == 10^4
Scale == Half * Half

Abs(x) == IF x < 0 THEN -x ELSE x

\* a*b = q*c + r with 0 <= r < c, formed over the decimal digits of b so that
\* no intermediate exceeds 10*c + 9*a
RECURSIVE MulDiv(_, _, _)
MulDiv(a, b, c) ==
    IF b = 0 THEN [q |-> 0, r |-> 0]
    ELSE LET p == MulDiv(a, b \div 10, c)
             t == p.r * 10 + a * (b % 10)
         IN  [q |-> p.q * 10 + (t \div c), r |-> t % c]

\* floor and ceiling of a*b/c
MulDivDown(a, b, c) == MulDiv(a, b, c).q
MulDivUp(a, b, c) == LET m == MulDiv(a, b, c) IN IF m.r = 0 THEN m.q ELSE m.q + 1

\* floor and ceiling of the fixed point product a*b/Scale, in two halves
MulParts(a, b) ==
    LET a1 == a \div Half
        a0 == a % Half
        b1 == b \div Half
        b0 == b % Half
        low == a0 * b0
        mid == a1 * b0 + a0 * b1 + (low \div Half)
    IN  [q |-> a1 * b1 + (mid \div Half),
         exact |-> (low % Half = 0) /\ (mid % Half = 0)]

MulDown(a, b) == MulParts(a, b).q
MulUp(a, b) == LET m == MulParts(a, b) IN IF m.exact THEN m.q ELSE m.q + 1

DivUp(a, n) == (a + n - 1) \div n

(***************************************************************************)
(* exp.  Term n of the series of exp(x) is x^n / n!; tl and tu are the     *)
(* floor and ceiling recurrences of the term.                              *)
(***************************************************************************)
\* sum of the floor terms n..last of exp(x), tl being term n-1
RECURSIVE SumDown(_, _, _, _)
SumDown(x, n, tl, last) ==
    IF n > last \/ tl = 0 THEN 0
    ELSE LET t == MulDown(tl, x) \div n IN t + SumDown(x, n + 1, t, last)

\* sum of the ceiling terms n..last of exp(x), tu being term n-1, plus twice
\* the term after the last (the tail of the series, x <= (last+2)/2)
RECURSIVE SumUp(_, _, _, _)
SumUp(x, n, tu, last) ==
    IF tu = 0 THEN 0
    ELSE LET t == DivUp(MulUp(tu, x), n)
         IN  IF n > last THEN 2 * t ELSE t + SumUp(x, n + 1, t, last)

\* the alternating sum  -+ term n +- term n+1 ... up to term last of exp(-x):
\* lower = TRUE rounds every term so that the sum is a lower bound
RECURSIVE SumAlt(_, _, _, _, _, _)
SumAlt(x, n, tl, tu, last, lower) ==
    IF n > last THEN 0
    ELSE LET l == MulDown(tl, x) \div n
             u == DivUp(MulUp(tu, x), n)
             odd == (n % 2 = 1)
             term == IF odd THEN (IF lower THEN -u ELSE -l)
                     ELSE (IF lower THEN l ELSE u)
         IN  term + SumAlt(x, n + 1, l, u, last, lower)

\* a lower and an upper bound of exp(x) and of exp(-x), x >= 0 a point
ExpPosLo(x) == Scale + SumDown(x, 1, Scale, 2 * ExpPairs)
ExpPosHi(x) == Scale + SumUp(x, 1, Scale, 2 * ExpPairs)
ExpNegLo(x) == IF x = 0 THEN Scale
               ELSE Scale + SumAlt(x, 1, Scale, Scale, 2 * ExpPairs + 1, TRUE)
ExpNegHi(x) == IF x = 0 THEN Scale
               ELSE Scale + SumAlt(x, 1, Scale, Scale, 2 * ExpPairs, FALSE)

\* np.exp of the number of sign sgn and magnitude within [y.lo, y.hi]
np_exp(sgn, y) ==
    IF sgn < 0 THEN [lo |-> ExpNegLo(y.hi), hi |-> ExpNegHi(y.lo)]
    ELSE [lo |-> ExpPosLo(y.lo), hi |-> ExpPosHi(y.hi)]

(***************************************************************************)
(* log.  |ln(num/den)| = 2 atanh(z) with z = |num-den| / (num+den), and    *)
(* atanh(z) = z + z^3/3 + z^5/5 + ...                                      *)
(***************************************************************************)
\* floor sum of terms k..AtanhTerms-1, p being z^(2k+1) and w being z^2
RECURSIVE AtanhDown(_, _, _)
AtanhDown(p, w, k) ==
    IF k >= AtanhTerms \/ p = 0 THEN 0
    ELSE (p \div (2 * k + 1)) + AtanhDown(MulDown(p, w), w, k + 1)

\* ceiling sum of the same terms plus twice the next power (the tail, z^2 <= 1/2)
RECURSIVE AtanhUp(_, _, _)
AtanhUp(p, w, k) ==
    IF p = 0 THEN 0
    ELSE IF k >= AtanhTerms THEN 2 * p
    ELSE DivUp(p, 2 * k + 1) + AtanhUp(MulUp(p, w), w, k + 1)

\* the magnitude of ln(num/den), num and den positive integers
LogAbs(num, den) ==
    LET d == Abs(num - den)
        zl == MulDivDown(d, Scale, num + den)
        zu == MulDivUp(d, Scale, num + den)
    IN  [lo |-> 2 * AtanhDown(zl, MulDown(zl, zl), 0),
         hi |-> 2 * AtanhUp(zu, MulUp(zu, zu), 0)]

\* (num/den) ** (en/ed): exp of (en/ed) * ln(num/den); num, den > 0, ed # 0
Power(num, den, en, ed) ==
    LET l == LogAbs(num, den)
        y == [lo |-> MulDivDown(l.lo, Abs(en), Abs(ed)),
              hi |-> MulDivUp(l.hi, Abs(en), Abs(ed))]
        lnsign == IF num < den THEN -1 ELSE 1
        exsign == IF (en < 0) = (ed < 0) THEN 1 ELSE -1
    IN  np_exp(lnsign * exsign, y)

(***************************************************************************)
(* Python values and call outcomes.                                        *)
(***************************************************************************)
None == [type |-> "NoneType"]
PyInt(i) == [type |-> "int", val |-> i]

\* list[i] for an int i within range (Python lists count from 0)
Item(list, i) == list[i + 1]

(***************************************************************************)
(* The literals of the source as exact scaled integers:                    *)
(*   temperatures in 1e-4 K, lapse rates in 1e-4 K/m, altitudes in m,      *)
(*   pressures in 1e-2 Pa, densities in 1e-5 kg/m^3,                       *)
(*   9.81 in 1e-2, 0.028964 in 1e-6, 8.314 in 1e-3.                        *)
(***************************************************************************)
temperature_Tb == <<2881500, 2166500, 2166500, 2286500, 2706500, 2706500>>
\* variant: the stratopause lapse rate 0.0028 typed as 0.002
temperature_a_typo == <<-65, 0, 10, 20, 0, -28>>
temperature_a == <<-65, 0, 10, 28, 0, -28>>
temperature_hb == <<0, 11000, 20000, 32000, 47000, 51000>>

pressure_Pb == <<10132500, 2263206, 547489, 86802, 11091, 6694>>
pressure_Tb == <<2881500, 2166500, 2166500, 2286500, 2706500, 2706500>>
\* variant: the lapse rates of get_pressure with the signs of get_temperature's
pressure_Lb_signed == <<-65, 0, 10, 28, 0, -28>>
pressure_Lb == <<65, 0, -10, -28, 0, 28>>
\* variant: the tropopause base 11000 typed as 10000
pressure_hb_typo == <<0, 10000, 20000, 32000, 47000, 51000>>
pressure_hb == <<0, 11000, 20000, 32000, 47000, 51000>>

density_Db == <<122500, 36391, 8803, 1322, 143, 86>>
density_Tb == <<2881500, 2166500, 2166500, 2286500, 2706500, 2706500>>
\* variant: the stratosphere lapse rate -0.001 lost, the layer made isothermal
density_Lb_zero == <<65, 0, 0, -28, 0, 28>>
density_Lb == <<65, 0, -10, -28, 0, 28>>
density_hb == <<0, 11000, 20000, 32000, 47000, 51000>>

Gravity == 981
MolarMass == 28964
GasConstant == 8314

(***************************************************************************)
(* get_level: the chain of comparisons; no branch matches from 71000 m on  *)
(* and the method falls off its end, which returns None.                   *)
(***************************************************************************)
\* variant: a last branch that catches everything (else: return 5)
get_level_else(h) ==
    IF h < 11000 THEN PyInt(0)
    ELSE IF h < 20000 THEN PyInt(1)
    ELSE IF h < 32000 THEN PyInt(2)
    ELSE IF h < 47000 THEN PyInt(3)
    ELSE IF h < 51000 THEN PyInt(4)
    ELSE PyInt(5)

\* variant: the breakpoints compared with <= (a breakpoint in the lower layer)
get_level_inclusive(h) ==
    IF h <= 11000 THEN PyInt(0)
    ELSE IF h <= 20000 THEN PyInt(1)
    ELSE IF h <= 32000 THEN PyInt(2)
    ELSE IF h <= 47000 THEN PyInt(3)
    ELSE IF h <= 51000 THEN PyInt(4)
    ELSE IF h <= 71000 THEN PyInt(5)
    ELSE None

\* variant: a lower bound on the troposphere (0 <= height < 11000)
get_level_floor(h) ==
    IF 0 <= h /\ h < 11000 THEN PyInt(0)
    ELSE IF h < 0 THEN None
    ELSE IF h < 20000 THEN PyInt(1)
    ELSE IF h < 32000 THEN PyInt(2)
    ELSE IF h < 47000 THEN PyInt(3)
    ELSE IF h < 51000 THEN PyInt(4)
    ELSE IF h < 71000 THEN PyInt(5)
    ELSE None

get_level(h) ==
    IF h < 11000 THEN PyInt(0)
    ELSE IF h < 20000 THEN PyInt(1)
    ELSE IF h < 32000 THEN PyInt(2)
    ELSE IF h < 47000 THEN PyInt(3)
    ELSE IF h < 51000 THEN PyInt(4)
    ELSE IF h < 71000 THEN PyInt(5)
    ELSE None

\* indexing a list with None raises TypeError at the first table lookup
TypeError == [kind |-> "raise", exc |-> "TypeError"]

(***************************************************************************)
(* get_temperature.                                                        *)
(***************************************************************************)
\* the lookups and the return expression for the layer index level
temperature_body(level, h) ==
    LET Tb == Item(temperature_Tb, level)
        a == Item(temperature_a, level)
        hb == Item(temperature_hb, level)
    IN  [kind |-> "return", level |-> level, Tb |-> Tb, a |-> a, hb |-> hb,
         value |-> Tb + a * (h - hb)]

get_temperature(h) ==
    LET level == get_level(h)
    IN  IF level.type # "int" THEN TypeError ELSE temperature_body(level.val, h)

(***************************************************************************)
(* The two branches shared by get_pressure and get_density.                *)
(***************************************************************************)
\* np.exp(-9.81 * 0.028964 * (height - _hb) / (8.314 * _Tb))
Isothermal(dh, Tb) ==
    LET a == Abs(dh) * Gravity
        y == [lo |-> MulDivDown(MulDivDown(a, MolarMass, GasConstant), 10^7, Tb),
              hi |-> MulDivUp(MulDivUp(a, MolarMass, GasConstant), 10^7, Tb)]
    IN  np_exp(IF dh < 0 THEN 1 ELSE -1, y)

\* (1 - _Lb * (height - _hb) / _Tb) ** (9.81 * 0.028964 / (8.314 * _Lb) - less)
Polytropic(dh, Tb, Lb, less) ==
    LET en == Gravity * MolarMass
        ed == GasConstant * Lb * 10
    IN  Power(Tb - Lb * dh, Tb, en - less * ed, ed)

\* variant: the altitude difference of the power taken as _hb - height
barometric_body_reversed(level, h, base, Tb, Lb, hb, less) ==
    IF Lb = 0
    THEN [kind |-> "return", level |-> level, base |-> base, Tb |-> Tb,
          Lb |-> Lb, hb |-> hb, branch |-> "isothermal",
          num |-> Tb, den |-> Tb, value |-> Isothermal(h - hb, Tb)]
    ELSE [kind |-> "return", level |-> level, base |-> base, Tb |-> Tb,
          Lb |-> Lb, hb |-> hb, branch |-> "polytropic",
          num |-> Tb - Lb * (hb - h), den |-> Tb,
          value |-> Polytropic(hb - h, Tb, Lb, less)]

\* the lookups, the branch and the return expression of either evaluator
barometric_body(level, h, base, Tb, Lb, hb, less) ==
    IF Lb = 0
    THEN [kind |-> "return", level |-> level, base |-> base, Tb |-> Tb,
          Lb |-> Lb, hb |-> hb, branch |-> "isothermal",
          num |-> Tb, den |-> Tb, value |-> Isothermal(h - hb, Tb)]
    ELSE [kind |-> "return", level |-> level, base |-> base, Tb |-> Tb,
          Lb |-> Lb, hb |-> hb, branch |-> "polytropic",
          num |-> Tb - Lb * (h - hb), den |-> Tb,
          value |-> Polytropic(h - hb, Tb, Lb, less)]

(***************************************************************************)
(* get_pressure and get_density.  The value returned is base * value /     *)
(* Scale in the unit of base, value being the enclosure of the factor.     *)
(***************************************************************************)
pressure_body(level, h) ==
    barometric_body(level, h, Item(pressure_Pb, level), Item(pressure_Tb, level),
                    Item(pressure_Lb, level), Item(pressure_hb, level), 0)

get_pressure(h) ==
    LET level == get_level(h)
    IN  IF level.type # "int" THEN TypeError ELSE pressure_body(level.val, h)

density_body(level, h) ==
    barometric_body(level, h, Item(density_Db, level), Item(density_Tb, level),
                    Item(density_Lb, level), Item(density_hb, level), 1)

get_density(h) ==
    LET level == get_level(h)
    IN  IF level.type # "int" THEN TypeError ELSE density_body(level.val, h)

(***************************************************************************)
(* The caller: it supplies an altitude sample and calls one method on it.  *)
(***************************************************************************)
Breakpoints == {11000, 20000, 32000, 47000, 51000, 71000}

Heights ==
    {h \in -Below..MaxHeight :
        h % Step = 0 \/ \E b \in Breakpoints \cup {0} : Abs(h - b) <= Near}

VARIABLES pc, height, op, result

vars == <<pc, height, op, result>>

NoResult == [kind |-> "none"]

Init ==
    /\ pc = "idle"
    /\ height = 0
    /\ op = "none"
    /\ result = NoResult

\* the caller picks the next altitude sample
Call ==
    /\ pc \in {"idle", "returned"}
    /\ \E h \in Heights : height' = h
    /\ pc' = "called"
    /\ op' = "none"
    /\ result' = NoResult

GetLevel ==
    /\ pc = "called"
    /\ pc' = "returned"
    /\ op' = "get_level"
    /\ result' = [kind |-> "return", value |-> get_level(height)]
    /\ UNCHANGED height

GetTemperature ==
    /\ pc = "called"
    /\ pc' = "returned"
    /\ op' = "get_temperature"
    /\ result' = get_temperature(height)
    /\ UNCHANGED height

GetPressure ==
    /\ pc = "called"
    /\ pc' = "returned"
    /\ op' = "get_pressure"
    /\ result' = get_pressure(height)
    /\ UNCHANGED height

GetDensity ==
    /\ pc = "called"
    /\ pc' = "returned"
    /\ op' = "get_density"
    /\ result' = get_density(height)
    /\ UNCHANGED height

Next == Call \/ GetLevel \/ GetTemperature \/ GetPressure \/ GetDensity

Spec == Init /\ [][Next]_vars


(***************************************************************************)
(* Properties.                                                             *)
(***************************************************************************)
Returned(o) == pc = "returned" /\ op = o
Evaluators == {"get_temperature", "get_pressure", "get_density"}
Barometric == {"get_pressure", "get_density"}
InRange(h) == 0 <= h /\ h < 71000

\* the base altitudes of the six layers, first to last
BaseAltitude == <<0, 11000, 20000, 32000, 47000, 51000>>
\* the index (from 0) of the last layer whose base altitude does not exceed h
LastLayer(h) ==
    CHOOSE i \in 0..5 :
        /\ BaseAltitude[i + 1] <= h
        /\ \A j \in 0..5 : BaseAltitude[j + 1] <= h => j <= i

\* the call the same evaluator makes on another altitude
Evaluate(o, h) == IF o = "get_pressure" THEN get_pressure(h) ELSE get_density(h)
\* the return expression of the same evaluator for a given layer
Body(o, level, h) ==
    IF o = "get_pressure" THEN pressure_body(level, h) ELSE density_body(level, h)

\* the product a*b as hi * Scale + lo, for a < 2^24 and b < 2^28
Wide(a, b) ==
    LET a1 == a \div Half
        a0 == a % Half
        b1 == b \div Half
        b0 == b % Half
        mid == a1 * b0 + a0 * b1
        low == (mid % Half) * Half + a0 * b0
    IN  [hi |-> a1 * b1 + (mid \div Half) + (low \div Scale), lo |-> low % Scale]
WideLess(p, q) == p.hi < q.hi \/ (p.hi = q.hi /\ p.lo < q.lo)

\* the returns r and s, each base * [value.lo, value.hi] / Scale: r lies
\* entirely below s
EntirelyBelow(r, s) == WideLess(Wide(r.base, r.value.hi), Wide(s.base, s.value.lo))
\* r may be the same number as s, r may be greater than s
MayEqual(r, s) == ~EntirelyBelow(r, s) /\ ~EntirelyBelow(s, r)
MayExceed(r, s) ==
    WideLess(Wide(s.base, s.value.lo), Wide(r.base, r.value.hi))

\* C1: from 71000 m on, get_temperature, get_pressure and get_density end in
\* an error (the TypeError of indexing a list with None) and return no value.
C1_OutOfRangeRaises ==
    (pc = "returned" /\ op \in Evaluators /\ height >= 71000)
        => result.kind = "raise"
C1_Witness ==
    Returned("get_temperature") /\ height = 71000 /\ result = TypeError

\* C2: for 0 <= h < 71000 the layer index is the one index in 0..5 of the
\* last base altitude that is <= h, so a breakpoint belongs to the upper layer.
C2_LevelIsLastLayer ==
    (pc = "returned" /\ InRange(height)) =>
        IF op = "get_level" THEN result.value = PyInt(LastLayer(height))
        ELSE result.kind = "return" /\ result.level = LastLayer(height)
C2_Witness ==
    Returned("get_level") /\ height = 20000 /\ result.value = PyInt(2)

\* C3 as stated: the lapse rate in the power of get_pressure and get_density
\* is the same signed value as the lapse rate of get_temperature for the layer.
C3_SameSignedLapse ==
    (pc = "returned" /\ op \in Barometric /\ result.kind = "return")
        => result.Lb = get_temperature(height).a
\* C3 amended: the lapse rate _Lb of get_pressure and get_density is the
\* negative of the lapse rate _a of get_temperature for the same layer.
C3_OppositeLapse ==
    (pc = "returned" /\ op \in Barometric /\ result.kind = "return")
        => result.Lb = -get_temperature(height).a
C3_Witness ==
    /\ Returned("get_pressure") /\ height = 5000
    /\ result.Lb = 65 /\ get_temperature(height).a = -65

\* C4: at each seam the lower layer's formula, taken at the seam, gives the
\* value get_pressure (get_density) returns there, the upper layer's base.
C4_NoJumpAtSeam ==
    (pc = "returned" /\ op \in Barometric /\ result.kind = "return"
        /\ result.level >= 1 /\ height = BaseAltitude[result.level + 1])
        => MayEqual(Body(op, result.level - 1, height), result)

\* C5: pressure and density at a higher altitude within [0, 71000) are
\* smaller than at a lower one, whatever layers the two altitudes lie in.
C5_StrictDecrease ==
    (pc = "returned" /\ op \in Barometric /\ InRange(height)) =>
        \A h2 \in Heights :
            (height < h2 /\ InRange(h2)) => MayExceed(result, Evaluate(op, h2))

\* C6: at each seam the lower layer's temperature formula, taken at the seam,
\* equals the temperature returned there, the upper layer's base temperature.
C6_TemperatureSeam ==
    (Returned("get_temperature") /\ result.kind = "return"
        /\ result.level >= 1 /\ height = BaseAltitude[result.level + 1])
        => /\ temperature_body(result.level - 1, height).value = result.value
           /\ result.value = Item(temperature_Tb, result.level)
C6_Witness ==
    Returned("get_temperature") /\ height = 32000 /\ result.value = 2286500

\* C7: at the base altitude of layer i each evaluator returns the tabulated
\* base value of layer i: 288.15 K, 101325.00 Pa and 1.225 kg/m^3 at 0 m,
\* 216.65 K and 22632.06 Pa at 11000 m, 0.08803 kg/m^3 at 20000 m.
C7_BaseValues ==
    \A i \in 0..5 :
        (pc = "returned" /\ height = BaseAltitude[i + 1]) =>
            /\ op = "get_temperature" =>
                /\ result.value = Item(temperature_Tb, i)
                /\ (i = 0 => result.value = 2881500)
                /\ (i = 1 => result.value = 2166500)
            /\ op = "get_pressure" =>
                /\ result.base = Item(pressure_Pb, i)
                /\ result.value = [lo |-> Scale, hi |-> Scale]
                /\ (i = 0 => result.base = 10132500)
                /\ (i = 1 => result.base = 2263206)
            /\ op = "get_density" =>
                /\ result.base = Item(density_Db, i)
                /\ result.value = [lo |-> Scale, hi |-> Scale]
                /\ (i = 0 => result.base = 122500)
                /\ (i = 2 => result.base = 8803)
C7_Witness ==
    /\ Returned("get_pressure") /\ height = 11000
    /\ result.base = 2263206 /\ result.value.lo = Scale /\ result.value.hi = Scale

\* C8: get_pressure and get_density take the exponential branch exactly in
\* the layers where get_temperature has lapse rate 0, which are [11000, 20000)
\* and [47000, 51000), and the power branch elsewhere in [0, 71000); in
\* [11000, 20000) get_pressure uses 22632.06 Pa, 216.65 K and 11000 m.
C8_BranchSelection ==
    (pc = "returned" /\ op \in Barometric /\ InRange(height)) =>
        /\ result.branch \in {"isothermal", "polytropic"}
        /\ (result.branch = "isothermal") = (get_temperature(height).a = 0)
        /\ (result.branch = "isothermal") =
              ((11000 <= height /\ height < 20000)
                  \/ (47000 <= height /\ height < 51000))
        /\ (op = "get_pressure" /\ 11000 <= height /\ height < 20000) =>
              (result.base = 2263206 /\ result.Tb = 2166500 /\ result.hb = 11000)
C8_Witness ==
    /\ Returned("get_pressure") /\ height = 15000
    /\ result.branch = "isothermal" /\ result.base = 2263206
    /\ result.value.hi < Scale

\* C9: below 0 m get_level returns 0 and the evaluators return a value made
\* with the troposphere constants; the temperature is 288.15 - 0.0065 * h.
C9_NegativeAltitude ==
    (pc = "returned" /\ height < 0) =>
        /\ op = "get_level" => result.value = PyInt(0)
        /\ op \in Evaluators => (result.kind = "return" /\ result.level = 0
                                    /\ result.hb = 0 /\ result.Tb = 2881500)
        /\ op = "get_temperature" => result.value = 2881500 - 65 * height
        /\ op \in Barometric =>
              /\ result.branch = "polytropic"
              /\ result.num = 2881500 - 65 * height
              /\ result.value.lo > Scale
        /\ op = "get_pressure" => result.base = 10132500
        /\ op = "get_density" => result.base = 122500
C9_Witness ==
    /\ Returned("get_temperature") /\ height = -1000
    /\ result.value = 2946500

\* C10: within [0, 71000) the base of the power is get_temperature(h) / _Tb
\* of the layer and is positive: the temperature stays in (214.65, 288.15] K.
C10_PositiveBase ==
    (pc = "returned" /\ InRange(height)) =>
        /\ (op \in Barometric /\ result.branch = "polytropic") =>
              /\ result.num = get_temperature(height).value
              /\ result.den = get_temperature(height).Tb
              /\ result.num > 0 /\ result.den > 0
        /\ op = "get_temperature" =>
              (2146500 < result.value /\ result.value <= 2881500)
C10_Witness ==
    /\ Returned("get_density") /\ height = 70500
    /\ result.branch = "polytropic" /\ result.num = 2160500

=============================================================================
